---- MODULE Spec2Model ----
(***************************************************************************)
(* Private transaction logs (ethcore/private-tx/src/log.rs).               *)
(*                                                                         *)
(* The Logging object keeps a map tx_hash -> TransactionLog behind a       *)
(* RwLock, reads it from a LogsSerializer when it is constructed and       *)
(* flushes it back when it is dropped.  Every public method takes the lock *)
(* for its whole body, so each method is one atomic action in Spec and     *)
(* SpecLoad; SpecConc runs the methods statement by statement on several   *)
(* threads under the lock and shows that the atomic reading is sound.      *)
(*                                                                         *)
(* Scaling.  H256 and Address values are small integers.  MAX_JOURNAL_LEN  *)
(* is scaled from 1000 to 1 so that the eviction branch is reachable; u64  *)
(* arithmetic is carried out modulo U64_MODULUS, scaled from 2^64 to 2^30  *)
(* (TLC's integers are 32 bits wide).  MAX_STORING_TIME keeps its value.   *)
(***************************************************************************)
EXTENDS Integers, Sequences, FiniteSets, TLC

\* ------------------------------------------------------------------ bounds
NumHash == 3            \* distinct private transaction hashes
NumAddress == 1         \* distinct validator accounts
NumPublic == 2          \* distinct public transaction hashes
MaxValidators == 1      \* longest validator list handed to private_tx_created
MaxOps == 4             \* calls on one Logging object after construction
MaxLoadOps == 1         \* the same, in the specification that varies the snapshot
MaxSnapshot == 3        \* longest snapshot held by the log file
MaxMainSnapshot == 1    \* the same, in the main specification
MaxTicks == 1           \* seconds the system clock advances
MaxRestarts == 1        \* Logging objects constructed after the first was dropped
NumThreads == 2         \* threads calling into one Logging object
MaxConcOps == 2         \* calls those threads make in all

\* --------------------------------------------------------------- constants
MAX_JOURNAL_LEN == 1
MAX_STORING_TIME == 60 * 60 * 24 * 20
U64_MODULUS == 1073741824

Hash == 1..NumHash
Address == 1..NumAddress
PublicHash == 1..NumPublic

\* Option<T>: None is the empty sequence, Some(x) the one-element sequence.
None == << >>
Some(x) == << x >>

PrivateTxStatus == {"Created", "Validating", "Deployed"}

\* The order of the variants, as the enum declares them.
Rank(status) ==
    CASE status = "Created" -> 0
      [] status = "Validating" -> 1
      [] status = "Deployed" -> 2

ValidatorLog(account, validated, validation_timestamp) ==
    [account |-> account, validated |-> validated,
     validation_timestamp |-> validation_timestamp]

TransactionLog(tx_hash, status, creation_timestamp, validators, deployment_timestamp, public_tx_hash) ==
    [tx_hash |-> tx_hash, status |-> status,
     creation_timestamp |-> creation_timestamp, validators |-> validators,
     deployment_timestamp |-> deployment_timestamp,
     public_tx_hash |-> public_tx_hash]

\* ------------------------------------------------------- HashMap<H256, _>
EmptyMap == << >>
MapRemove(m, k) == [x \in (DOMAIN m) \ {k} |-> m[x]]
MapInsert(m, k, v) == [x \in (DOMAIN m) \cup {k} |-> IF x = k THEN v ELSE m[x]]
MapLen(m) == Cardinality(DOMAIN m)

\* u64 subtraction as the release build computes it.
WrappingSub(a, b) == (a - b + U64_MODULUS) % U64_MODULUS

\* ------------------------------------------------------------------ state
VARIABLES
    logs,             \* Logging::logs, the in-memory map
    logs_dir,         \* FileLogsSerializer::logs_dir is Some
    file,             \* private_tx.log: [state: missing | bad | ok, data: its array]
    clock,            \* what the next TimestampSource::current_timestamp returns
    clock_kind,       \* "system" (SystemTimestamp) or "counter" (CounterTimestamp)
    pc,               \* start | ready | panicked | dropped
    ops,              \* calls still allowed by the bound
    last,             \* the last call: its arguments and what it did
    before,           \* logs as they were when the last call began
    loaded,           \* logs as they were when construction ended
    life,             \* per hash: how far a create / validate / deploy run has got
    flushed,          \* the calls of the serializer's flush_logs: [map, ok] each
    gen,              \* Logging objects constructed so far
    lock,             \* the RwLock around logs: [writer: thread or 0, readers: threads]
    th,               \* per thread: the call it is in and how far it has got
    stable            \* logs as the last writer left them when it released the lock

\* The variables of the threaded specification.
cvars == << lock, th, stable >>

vars == << logs, logs_dir, file, clock, clock_kind, pc, ops,
           last, before, loaded, life, flushed, gen, cvars >>


\* ------------------------------------------------ FileLogsSerializer, clock
Ok(v) == [ok |-> TRUE, data |-> v]
Err == [ok |-> FALSE, data |-> << >>]

NoFile == [state |-> "missing", data |-> << >>]
BadFile == [state |-> "bad", data |-> << >>]
OkFile(ts) == [state |-> "ok", data |-> ts]

\* FileLogsSerializer::read_logs: no directory reads as an empty list; a file
\* that cannot be opened or does not parse is an error.
Serializer_read_logs(dir, f) ==
    IF ~dir THEN Ok(<< >>)
    ELSE IF f.state = "ok" THEN Ok(f.data)
    ELSE Err

\* The orders in which HashMap::values can hand out the entries of m.
ValueOrders(m) ==
    { s \in [1..MapLen(m) -> {m[k] : k \in DOMAIN m}] :
        \A k \in DOMAIN m : \E i \in 1..MapLen(m) : s[i] = m[k] }

\* Mutant of Serializer_flush_logs: without the is_empty return of line 139.
Serializer_flush_logsNoEmptyCheckMutant(dir, f, m) ==
    IF ~dir THEN { [ok |-> TRUE, file |-> f] }
    ELSE { [ok |-> TRUE, file |-> OkFile(s)] : s \in ValueOrders(m) }
         \cup { [ok |-> FALSE, file |-> f] }
         \cup { [ok |-> FALSE, file |-> BadFile] }

\* Mutant of Serializer_flush_logs: the file is opened with create_new, so an
\* existing file is left as it is.
Serializer_flush_logsCreateNewMutant(dir, f, m) ==
    IF m = EmptyMap THEN { [ok |-> TRUE, file |-> f] }
    ELSE IF ~dir THEN { [ok |-> TRUE, file |-> f] }
    ELSE IF f.state # "missing" THEN { [ok |-> TRUE, file |-> f] }
    ELSE { [ok |-> TRUE, file |-> OkFile(s)] : s \in ValueOrders(m) }
         \cup { [ok |-> FALSE, file |-> f] }
         \cup { [ok |-> FALSE, file |-> BadFile] }

\* FileLogsSerializer::flush_logs: the results [ok, file] the call can have.
Serializer_flush_logs(dir, f, m) ==
    IF m = EmptyMap THEN { [ok |-> TRUE, file |-> f] }
    ELSE IF ~dir THEN { [ok |-> TRUE, file |-> f] }
    ELSE { [ok |-> TRUE, file |-> OkFile(s)] : s \in ValueOrders(m) }
         \cup { [ok |-> FALSE, file |-> f] }
         \cup { [ok |-> FALSE, file |-> BadFile] }

\* The clock when the Logging object is constructed: one second past the
\* retention window, so that a snapshot can hold an entry of exactly that age.
ClockStart == MAX_STORING_TIME + 1

\* Mutant of ClockAfterRead: the counter is bumped twice per read.
ClockAfterReadTwiceMutant(kind, c) == IF kind = "counter" THEN c + 2 ELSE c

\* TimestampSource::current_timestamp: CounterTimestamp counts its reads,
\* SystemTimestamp does not change by being read.
ClockAfterRead(kind, c) == IF kind = "counter" THEN c + 1 ELSE c

\* ------------------------------------------------------- the pure helpers
\* private_tx_created, lines 199-206
NewValidatorLogs(validators) ==
    [i \in 1..Len(validators) |-> ValidatorLog(validators[i], FALSE, None)]

\* Mutant of Oldest: max_by in place of min_by.
OldestNewestMutant(m) ==
    { k \in DOMAIN m :
        \A j \in DOMAIN m : m[k].creation_timestamp >= m[j].creation_timestamp }

\* The keys min_by(creation_timestamp) can return: HashMap iteration order
\* is unspecified, so any entry of minimal creation_timestamp.
Oldest(m) ==
    { k \in DOMAIN m :
        \A j \in DOMAIN m : m[k].creation_timestamp <= m[j].creation_timestamp }

\* Mutant of Victims: nothing is ever evicted.
VictimsNeverMutant(m) == {0}

\* The victims private_tx_created can choose; 0 stands for "no eviction".
Victims(m) == IF MapLen(m) > MAX_JOURNAL_LEN THEN Oldest(m) ELSE {0}

\* Mutant of CreatedMap: entry().or_insert in place of insert, an entry that
\* exists is kept.
CreatedMapKeepExistingMutant(m, k, tx_hash, validators, now) ==
    LET kept == IF k = 0 THEN m ELSE MapRemove(m, m[k].tx_hash)
    IN  IF tx_hash \in DOMAIN kept THEN kept
        ELSE MapInsert(kept, tx_hash,
                TransactionLog(tx_hash, "Created", now, NewValidatorLogs(validators),
                               None, None))

\* private_tx_created, lines 207-224, with the victim k the iteration chose
CreatedMap(m, k, tx_hash, validators, now) ==
    LET kept == IF k = 0 THEN m ELSE MapRemove(m, m[k].tx_hash)
    IN  MapInsert(kept, tx_hash,
            TransactionLog(tx_hash, "Created", now, NewValidatorLogs(validators),
                           None, None))

\* iter_mut().find(|log| log.account == *validator): the first match, 0 if none
FindValidator(vs, validator) ==
    IF \E i \in 1..Len(vs) : vs[i].account = validator
    THEN CHOOSE i \in 1..Len(vs) :
            /\ vs[i].account = validator
            /\ \A j \in 1..(i - 1) : vs[j].account # validator
    ELSE 0

\* signature_added reads the clock only when it finds the entry and the validator
SignatureFound(m, tx_hash, validator) ==
    /\ tx_hash \in DOMAIN m
    /\ FindValidator(m[tx_hash].validators, validator) # 0

\* Mutant of SignatureAddedMap: the validation_timestamp is not written.
SignatureAddedMapNoTimestampMutant(m, tx_hash, validator, now) ==
    IF tx_hash \in DOMAIN m
    THEN LET log == m[tx_hash]
             i == FindValidator(log.validators, validator)
             vs == IF i = 0 THEN log.validators
                   ELSE [log.validators EXCEPT
                           ![i] = ValidatorLog(@.account, TRUE, @.validation_timestamp)]
         IN  [m EXCEPT ![tx_hash] =
                 [log EXCEPT !.status = "Validating", !.validators = vs]]
    ELSE m

\* signature_added, lines 229-236
SignatureAddedMap(m, tx_hash, validator, now) ==
    IF tx_hash \in DOMAIN m
    THEN LET log == m[tx_hash]
             i == FindValidator(log.validators, validator)
             vs == IF i = 0 THEN log.validators
                   ELSE [log.validators EXCEPT
                           ![i] = ValidatorLog(@.account, TRUE, Some(now))]
         IN  [m EXCEPT ![tx_hash] =
                 [log EXCEPT !.status = "Validating", !.validators = vs]]
    ELSE m

\* Mutant of TxDeployedMap: the clock reading lands in creation_timestamp too.
TxDeployedMapCreationMutant(m, tx_hash, public_tx_hash, now) ==
    IF tx_hash \in DOMAIN m
    THEN [m EXCEPT ![tx_hash] =
             [@ EXCEPT !.status = "Deployed",
                       !.creation_timestamp = now,
                       !.deployment_timestamp = Some(now),
                       !.public_tx_hash = Some(public_tx_hash)]]
    ELSE m

\* Mutant of TxDeployedMap: an absent entry is inserted instead of skipped.
TxDeployedMapUpsertMutant(m, tx_hash, public_tx_hash, now) ==
    MapInsert(m, tx_hash,
        IF tx_hash \in DOMAIN m
        THEN [m[tx_hash] EXCEPT !.status = "Deployed",
                                !.deployment_timestamp = Some(now),
                                !.public_tx_hash = Some(public_tx_hash)]
        ELSE TransactionLog(tx_hash, "Deployed", now, << >>, Some(now),
                            Some(public_tx_hash)))

\* tx_deployed, lines 241-246
TxDeployedMap(m, tx_hash, public_tx_hash, now) ==
    IF tx_hash \in DOMAIN m
    THEN [m EXCEPT ![tx_hash] =
             [@ EXCEPT !.status = "Deployed",
                       !.deployment_timestamp = Some(now),
                       !.public_tx_hash = Some(public_tx_hash)]]
    ELSE m

\* tx_log, line 194
TxLog(m, tx_hash) == IF tx_hash \in DOMAIN m THEN Some(m[tx_hash]) ELSE None

\* Mutant of Retained: <= in place of <.
RetainedInclusiveMutant(tx_log, current_timestamp) ==
    WrappingSub(current_timestamp, tx_log.creation_timestamp) <= MAX_STORING_TIME

\* read_logs, line 253: the retain predicate, as the release build computes it
Retained(tx_log, current_timestamp) ==
    WrappingSub(current_timestamp, tx_log.creation_timestamp) < MAX_STORING_TIME

\* read_logs, line 253: the subtraction overflows, which the debug build traps
Overflows(ts, current_timestamp) ==
    \E i \in 1..Len(ts) : ts[i].creation_timestamp > current_timestamp

\* read_logs, lines 254-257: insert the entries in order, later ones overwrite
RECURSIVE InsertAll(_, _)
InsertAll(m, ts) ==
    IF ts = << >> THEN m
    ELSE InsertAll(MapInsert(m, Head(ts).tx_hash, Head(ts)), Tail(ts))

\* read_logs, lines 252-257
LoadedMap(ts, current_timestamp) ==
    InsertAll(EmptyMap, SelectSeq(ts, LAMBDA l : Retained(l, current_timestamp)))


\* ------------------------------------------------------- history variables
\* The record of a call.  time is the clock reading the call took, if any;
\* evicted the keys it removed from the map to make room; result what tx_log
\* returned; ok whether the serializer call it made succeeded.
Call(op, tx_hash, validators, validator, public_tx_hash, time, evicted, result, ok) ==
    [op |-> op, tx_hash |-> tx_hash, validators |-> validators,
     validator |-> validator, public_tx_hash |-> public_tx_hash,
     time |-> time, evicted |-> evicted, result |-> result, ok |-> ok]

NoCall == Call("none", 0, << >>, 0, 0, None, {}, None, TRUE)

\* A run on one hash: stage 1 after private_tx_created(h, <<v>>) at t0, stage 2
\* after signature_added(h, v) at t1 follows it, stage 3 after tx_deployed(h, p)
\* at t2 follows that.  Any other mutating call on h ends the run (stage 0);
\* evicted records that another hash's creation removed h during the run.
NoRun == [stage |-> 0, v |-> 0, p |-> 0, t0 |-> 0, t1 |-> 0, t2 |-> 0,
          evicted |-> FALSE]

LifeAfterCreate(l, h, validators, now, gone) ==
    [x \in Hash |->
        IF x = h
        THEN IF Len(validators) = 1
             THEN [NoRun EXCEPT !.stage = 1, !.v = validators[1], !.t0 = now]
             ELSE NoRun
        ELSE IF x \in gone /\ l[x].stage > 0
             THEN [l[x] EXCEPT !.evicted = TRUE]
             ELSE l[x]]

LifeAfterSignature(l, h, validator, now) ==
    [l EXCEPT ![h] = IF @.stage = 1 /\ @.v = validator
                     THEN [@ EXCEPT !.stage = 2, !.t1 = now]
                     ELSE NoRun]

LifeAfterDeployed(l, h, public_tx_hash, now) ==
    [l EXCEPT ![h] = IF @.stage = 2
                     THEN [@ EXCEPT !.stage = 3, !.p = public_tx_hash, !.t2 = now]
                     ELSE NoRun]

\* ----------------------------------------------------------------- inputs
\* The validator lists handed to private_tx_created.
ValidatorLists == UNION { [1..n -> Address] : n \in 0..MaxValidators }

\* The creation times a stored entry can have: exactly as old as the retention
\* window, one second younger, written this second, and one second ahead.
SnapTimes == {ClockStart - MAX_STORING_TIME, ClockStart - MAX_STORING_TIME + 1,
              ClockStart, ClockStart + 1}

\* A stored entry: the older ones went through the whole lifecycle, the
\* recent ones have only been created.
SnapEntry(h, t) ==
    IF t < ClockStart
    THEN TransactionLog(h, "Deployed", t,
                        << ValidatorLog(1, TRUE, Some(t + 1)) >>, Some(t + 2), Some(1))
    ELSE TransactionLog(h, "Created", t, << ValidatorLog(1, FALSE, None) >>,
                        None, None)

SnapEntries(hs) == { SnapEntry(h, t) : h \in hs, t \in SnapTimes }

\* The log files with at most n entries, all of hashes in hs.
Files(n, hs) ==
    {NoFile, BadFile}
    \cup { OkFile(ts) : ts \in UNION { [1..k -> SnapEntries(hs)] : k \in 0..n } }

\* ---------------------------------------------------------------- threads
Thread == 1..NumThreads

\* RwLock::new, line 182
Unlocked == [writer |-> 0, readers |-> {}]

\* A thread outside any call.  In a call: op and its arguments h (the hash)
\* and a (the validators, the validator or the public hash), at the step at;
\* got is what the thread's last tx_log returned and due what the map held
\* for that hash when the last writer before it released the lock.
Idle == [at |-> "idle", op |-> "none", h |-> 0, a |-> 0, now |-> 0, waited |-> FALSE, got |-> None, due |-> None]

\* Mutant of CanRead: the read guard is handed out while a writer holds the lock.
CanReadDirtyMutant(l) == TRUE

\* RwLock::read: granted when no thread holds the write guard
CanRead(l) == l.writer = 0

\* RwLock::write: granted when no thread holds any guard
CanWrite(l) == l.writer = 0 /\ l.readers = {}

\* ------------------------------------------------------------------- Init
InitWith(files, budget) ==
    /\ logs = EmptyMap
    /\ logs_dir \in BOOLEAN
    /\ file \in (IF logs_dir THEN files ELSE {NoFile})
    /\ clock = ClockStart
    /\ clock_kind \in {"system", "counter"}
    /\ pc = "start"
    /\ ops = budget
    /\ last = NoCall
    /\ before = EmptyMap
    /\ loaded = EmptyMap
    /\ life = [h \in Hash |-> NoRun]
    /\ flushed = << >>
    /\ gen = 0
    /\ lock = Unlocked
    /\ th = [t \in Thread |-> Idle]
    /\ stable = EmptyMap

\* The main specification: a short log file (of the first hash: the hashes are
\* interchangeable) and a long run of calls.
Init == InitWith(Files(MaxMainSnapshot, {1}), MaxOps)

\* The loading specification: every log file, and a short run of calls.
InitLoad == InitWith(Files(MaxSnapshot, Hash), MaxLoadOps)

\* ---------------------------------------------------------------- actions
\* Mutant of NewPc: a failed read_logs is unwrapped instead of logged.
NewPcPropagateMutant(res, now, checks) ==
    IF ~res.ok \/ (checks /\ Overflows(res.data, now)) THEN "panicked" ELSE "ready"

\* What Logging::new ends as: the journal is usable unless read_logs panicked.
NewPc(res, now, checks) ==
    IF res.ok /\ checks /\ Overflows(res.data, now) THEN "panicked" ELSE "ready"

\* One call of the serializer's flush_logs, as the history keeps it.
Flush(m, ok) == [map |-> m, ok |-> ok]

\* Logging::new, lines 180-190, with read_logs, lines 249-259.  A failed read
\* returns before the clock is read.  The subtraction of line 253 panics in a
\* build with overflow checks and wraps in one without: either build can be
\* the one running.  A panic unwinds through Drop, which flushes the still
\* empty map: FileLogsSerializer::flush_logs returns at once.  A new object
\* can be constructed over the same serializer and clock once the previous
\* one was dropped.
Logging_new ==
    /\ \/ pc = "start"
       \/ pc = "dropped" /\ gen <= MaxRestarts
    /\ \E overflow_checks \in BOOLEAN :
       LET res == Serializer_read_logs(logs_dir, file)
           now == clock
           end == NewPc(res, now, overflow_checks)
       IN  /\ pc' = end
           /\ clock' = IF res.ok THEN ClockAfterRead(clock_kind, clock) ELSE clock
           /\ logs' = IF res.ok /\ end = "ready" THEN LoadedMap(res.data, now)
                      ELSE EmptyMap
           /\ loaded' = logs'
           /\ last' = Call("new", 0, << >>, 0, 0,
                           IF res.ok THEN Some(now) ELSE None, {}, None, res.ok)
           /\ flushed' = IF end = "panicked" THEN Append(flushed, Flush(EmptyMap, TRUE))
                         ELSE flushed
    /\ before' = EmptyMap
    /\ life' = [h \in Hash |-> NoRun]
    /\ gen' = gen + 1
    /\ UNCHANGED << logs_dir, file, clock_kind, ops, cvars >>

\* The bound on calls: ops calls in all, made on the first object.  The
\* objects constructed after it show what a later load sees.
Callable == pc = "ready" /\ ops > 0 /\ gen = 1

\* Logging::private_tx_created, lines 198-225
private_tx_created(tx_hash, validators) ==
    /\ Callable
    /\ \E k \in Victims(logs) :
        LET now == clock
            gone == IF k = 0 THEN {} ELSE {logs[k].tx_hash}
        IN  /\ logs' = CreatedMap(logs, k, tx_hash, validators, now)
            /\ last' = Call("create", tx_hash, validators, 0, 0, Some(now),
                            gone, None, TRUE)
            /\ life' = LifeAfterCreate(life, tx_hash, validators, now, gone)
    /\ clock' = ClockAfterRead(clock_kind, clock)
    /\ before' = logs
    /\ ops' = ops - 1
    /\ UNCHANGED << logs_dir, file, clock_kind, pc, loaded, flushed, gen, cvars >>

\* Logging::signature_added, lines 228-237
signature_added(tx_hash, validator) ==
    /\ Callable
    /\ LET now == clock
           found == SignatureFound(logs, tx_hash, validator)
       IN  /\ logs' = SignatureAddedMap(logs, tx_hash, validator, now)
           /\ clock' = IF found THEN ClockAfterRead(clock_kind, clock) ELSE clock
           /\ last' = Call("signature", tx_hash, << >>, validator, 0,
                           IF found THEN Some(now) ELSE None, {}, None, TRUE)
           /\ life' = LifeAfterSignature(life, tx_hash, validator, now)
    /\ before' = logs
    /\ ops' = ops - 1
    /\ UNCHANGED << logs_dir, file, clock_kind, pc, loaded, flushed, gen, cvars >>

\* Logging::tx_deployed, lines 240-247
tx_deployed(tx_hash, public_tx_hash) ==
    /\ Callable
    /\ LET now == clock
           found == tx_hash \in DOMAIN logs
       IN  /\ logs' = TxDeployedMap(logs, tx_hash, public_tx_hash, now)
           /\ clock' = IF found THEN ClockAfterRead(clock_kind, clock) ELSE clock
           /\ last' = Call("deployed", tx_hash, << >>, 0, public_tx_hash,
                           IF found THEN Some(now) ELSE None, {}, None, TRUE)
           /\ life' = LifeAfterDeployed(life, tx_hash, public_tx_hash, now)
    /\ before' = logs
    /\ ops' = ops - 1
    /\ UNCHANGED << logs_dir, file, clock_kind, pc, loaded, flushed, gen, cvars >>

\* Logging::tx_log, lines 193-195
tx_log(tx_hash) ==
    /\ Callable
    /\ last' = Call("tx_log", tx_hash, << >>, 0, 0, None, {},
                    TxLog(logs, tx_hash), TRUE)
    /\ before' = logs
    /\ ops' = ops - 1
    /\ UNCHANGED << logs, logs_dir, file, clock, clock_kind, pc,
                    loaded, life, flushed, gen, cvars >>

\* Mutant of DropPc: the result of flush_logs is unwrapped instead of logged.
DropPcUnwrapMutant(ok) == IF ok THEN "dropped" ELSE "panicked"

\* Drop::drop, lines 269-273: an error of flush_logs is logged, nothing else.
DropPc(ok) == "dropped"

\* Drop for Logging, lines 268-274, with flush_logs, lines 261-264
Logging_drop ==
    /\ pc = "ready"
    /\ gen <= MaxRestarts
    /\ \E r \in Serializer_flush_logs(logs_dir, file, logs) :
        /\ file' = r.file
        /\ last' = Call("drop", 0, << >>, 0, 0, None, {}, None, r.ok)
        /\ flushed' = Append(flushed, Flush(logs, r.ok))
        /\ pc' = DropPc(r.ok)
    /\ before' = logs
    /\ UNCHANGED << logs, logs_dir, clock, clock_kind, ops,
                    loaded, life, gen, cvars >>

\* A second passes on the system clock.
Tick ==
    /\ pc = "ready"
    /\ clock_kind = "system"
    /\ clock < ClockStart + MaxTicks
    /\ clock' = clock + 1
    /\ UNCHANGED << logs, logs_dir, file, clock_kind, pc, ops,
                    last, before, loaded, life, flushed, gen, cvars >>

Next ==
    \/ Logging_new
    \/ \E h \in Hash, vs \in ValidatorLists : private_tx_created(h, vs)
    \/ \E h \in Hash, v \in Address : signature_added(h, v)
    \/ \E h \in Hash, p \in PublicHash : tx_deployed(h, p)
    \/ \E h \in Hash : tx_log(h)
    \/ Logging_drop
    \/ Tick

Spec == Init /\ [][Next]_vars

SpecLoad == InitLoad /\ [][Next]_vars

\* ------------------------------------------------- the calls, step by step
\* The threaded specification runs the four calls of a constructed Logging
\* object on NumThreads threads, one statement at a time, under the RwLock.
ThreadCalls ==
    { <<"tx_log", h, 0>> : h \in Hash }
    \cup { <<"create", h, vs>> : h \in Hash, vs \in ValidatorLists }
    \cup { <<"signature", h, v>> : h \in Hash, v \in Address }
    \cup { <<"deployed", h, p>> : h \in Hash, p \in PublicHash }

SetTh(t, r) == [th EXCEPT ![t] = r]

\* Thread t enters a call; private_tx_created builds validator_logs (lines
\* 199-206) from its argument before it asks for the lock.
th_call(t, c) ==
    /\ pc = "ready" /\ ops > 0
    /\ th[t].at = "idle"
    /\ th' = SetTh(t, [Idle EXCEPT !.at = "lock", !.op = c[1], !.h = c[2], !.a = c[3]])
    /\ ops' = ops - 1
    /\ UNCHANGED << logs, logs_dir, file, clock, clock_kind, pc, last, before,
                    loaded, life, flushed, gen, lock, stable >>

\* The lock is not granted: the thread waits.
th_wait(t) ==
    /\ th[t].at = "lock"
    /\ ~th[t].waited
    /\ IF th[t].op = "tx_log" THEN ~CanRead(lock) ELSE ~CanWrite(lock)
    /\ th' = SetTh(t, [th[t] EXCEPT !.waited = TRUE])
    /\ UNCHANGED << logs, logs_dir, file, clock, clock_kind, pc, ops, last,
                    before, loaded, life, flushed, gen, lock, stable >>

\* tx_log, line 194: self.logs.read()
th_read(t) ==
    /\ th[t].at = "lock" /\ th[t].op = "tx_log"
    /\ CanRead(lock)
    /\ lock' = [lock EXCEPT !.readers = @ \cup {t}]
    /\ th' = SetTh(t, [th[t] EXCEPT !.at = "cloned"])
    /\ UNCHANGED << logs, logs_dir, file, clock, clock_kind, pc, ops, last,
                    before, loaded, life, flushed, gen, stable >>

\* tx_log, line 194: .get(&tx_hash).cloned(), and the guard goes at the end of
\* the statement
th_cloned(t) ==
    /\ th[t].at = "cloned"
    /\ lock' = [lock EXCEPT !.readers = @ \ {t}]
    /\ th' = SetTh(t, [th[t] EXCEPT !.at = "idle", !.op = "none",
                                    !.got = TxLog(logs, th[t].h),
                                    !.due = TxLog(stable, th[t].h)])
    /\ UNCHANGED << logs, logs_dir, file, clock, clock_kind, pc, ops, last,
                    before, loaded, life, flushed, gen, stable >>

\* lines 207, 229, 241: self.logs.write()
th_write(t) ==
    /\ th[t].at = "lock" /\ th[t].op # "tx_log"
    /\ CanWrite(lock)
    /\ lock' = [lock EXCEPT !.writer = t]
    /\ th' = SetTh(t, [th[t] EXCEPT !.at = IF th[t].op = "create" THEN "remove"
                                           ELSE "get_mut"])
    /\ UNCHANGED << logs, logs_dir, file, clock, clock_kind, pc, ops, last,
                    before, loaded, life, flushed, gen, stable >>

\* private_tx_created, lines 208-216
th_remove(t) ==
    /\ th[t].at = "remove"
    /\ \E k \in Victims(logs) : logs' = IF k = 0 THEN logs ELSE MapRemove(logs, k)
    /\ th' = SetTh(t, [th[t] EXCEPT !.at = "insert"])
    /\ UNCHANGED << logs_dir, file, clock, clock_kind, pc, ops, last, before,
                    loaded, life, flushed, gen, lock, stable >>

\* private_tx_created, lines 217-224
th_insert(t) ==
    /\ th[t].at = "insert"
    /\ logs' = MapInsert(logs, th[t].h,
                   TransactionLog(th[t].h, "Created", clock,
                                  NewValidatorLogs(th[t].a), None, None))
    /\ clock' = ClockAfterRead(clock_kind, clock)
    /\ th' = SetTh(t, [th[t] EXCEPT !.at = "unlock", !.now = clock])
    /\ UNCHANGED << logs_dir, file, clock_kind, pc, ops, last, before,
                    loaded, life, flushed, gen, lock, stable >>

\* lines 230-231 and 242-243: get_mut and the assignment of status
th_get_mut(t) ==
    /\ th[t].at = "get_mut"
    /\ IF th[t].h \in DOMAIN logs
       THEN /\ logs' = [logs EXCEPT ![th[t].h].status =
                            IF th[t].op = "signature" THEN "Validating" ELSE "Deployed"]
            /\ th' = SetTh(t, [th[t] EXCEPT !.at =
                            IF th[t].op = "signature" THEN "find"
                            ELSE "deployment_timestamp"])
       ELSE /\ logs' = logs
            /\ th' = SetTh(t, [th[t] EXCEPT !.at = "unlock"])
    /\ UNCHANGED << logs_dir, file, clock, clock_kind, pc, ops, last, before,
                    loaded, life, flushed, gen, lock, stable >>

\* signature_added, lines 232-233: find and validated = true
th_find(t) ==
    /\ th[t].at = "find"
    /\ LET i == FindValidator(logs[th[t].h].validators, th[t].a)
       IN  IF i # 0
           THEN /\ logs' = [logs EXCEPT ![th[t].h].validators[i].validated = TRUE]
                /\ th' = SetTh(t, [th[t] EXCEPT !.at = "validation_timestamp"])
           ELSE /\ logs' = logs
                /\ th' = SetTh(t, [th[t] EXCEPT !.at = "unlock"])
    /\ UNCHANGED << logs_dir, file, clock, clock_kind, pc, ops, last, before,
                    loaded, life, flushed, gen, lock, stable >>

\* signature_added, line 234
th_validation_timestamp(t) ==
    /\ th[t].at = "validation_timestamp"
    /\ LET i == FindValidator(logs[th[t].h].validators, th[t].a)
       IN  logs' = [logs EXCEPT
                       ![th[t].h].validators[i].validation_timestamp = Some(clock)]
    /\ clock' = ClockAfterRead(clock_kind, clock)
    /\ th' = SetTh(t, [th[t] EXCEPT !.at = "unlock", !.now = clock])
    /\ UNCHANGED << logs_dir, file, clock_kind, pc, ops, last, before,
                    loaded, life, flushed, gen, lock, stable >>

\* tx_deployed, line 244
th_deployment_timestamp(t) ==
    /\ th[t].at = "deployment_timestamp"
    /\ logs' = [logs EXCEPT ![th[t].h].deployment_timestamp = Some(clock)]
    /\ clock' = ClockAfterRead(clock_kind, clock)
    /\ th' = SetTh(t, [th[t] EXCEPT !.at = "public_tx_hash", !.now = clock])
    /\ UNCHANGED << logs_dir, file, clock_kind, pc, ops, last, before,
                    loaded, life, flushed, gen, lock, stable >>

\* tx_deployed, line 245
th_public_tx_hash(t) ==
    /\ th[t].at = "public_tx_hash"
    /\ logs' = [logs EXCEPT ![th[t].h].public_tx_hash = Some(th[t].a)]
    /\ th' = SetTh(t, [th[t] EXCEPT !.at = "unlock"])
    /\ UNCHANGED << logs_dir, file, clock, clock_kind, pc, ops, last, before,
                    loaded, life, flushed, gen, lock, stable >>

\* The write guard goes out of scope: lines 225, 237, 247
th_unlock(t) ==
    /\ th[t].at = "unlock"
    /\ lock' = [lock EXCEPT !.writer = 0]
    /\ stable' = logs
    /\ th' = SetTh(t, [th[t] EXCEPT !.at = "idle"])
    /\ UNCHANGED << logs, logs_dir, file, clock, clock_kind, pc, ops, last,
                    before, loaded, life, flushed, gen >>

\* The state Logging::new leaves when it loaded a short log file.
InitConc ==
    /\ logs_dir = TRUE
    /\ clock_kind \in {"system", "counter"}
    /\ \E f \in Files(MaxMainSnapshot, {1}) :
        /\ f.state = "ok" /\ ~Overflows(f.data, ClockStart)
        /\ file = f
        /\ logs = LoadedMap(f.data, ClockStart)
    /\ clock = ClockAfterRead(clock_kind, ClockStart)
    /\ pc = "ready"
    /\ ops = MaxConcOps
    /\ last = Call("new", 0, << >>, 0, 0, Some(ClockStart), {}, None, TRUE)
    /\ before = EmptyMap
    /\ loaded = logs
    /\ life = [h \in Hash |-> NoRun]
    /\ flushed = << >>
    /\ gen = 1
    /\ lock = Unlocked
    /\ th = [t \in Thread |-> Idle]
    /\ stable = logs

NextConc ==
    \E t \in Thread :
        \/ \E c \in ThreadCalls : th_call(t, c)
        \/ th_wait(t)
        \/ th_read(t)
        \/ th_cloned(t)
        \/ th_write(t)
        \/ th_remove(t)
        \/ th_insert(t)
        \/ th_get_mut(t)
        \/ th_find(t)
        \/ th_validation_timestamp(t)
        \/ th_deployment_timestamp(t)
        \/ th_public_tx_hash(t)
        \/ th_unlock(t)

SpecConc == InitConc /\ [][NextConc]_vars


\* ================================================================== claims
Started == pc # "start"

\* The journal was constructed empty: nothing was kept at load.
FromEmpty == Started /\ loaded = EmptyMap

\* C1: starting from an empty journal, the map never holds more than
\* MAX_JOURNAL_LEN entries.
C1_CapacityInvariant ==
    FromEmpty => MapLen(logs) <= MAX_JOURNAL_LEN

\* C2: a private_tx_created call that evicts removes exactly one entry, one of
\* smallest creation_timestamp among those present before the call; the new
\* entry is inserted after the eviction, and every other entry stays as it was.
C2_EvictsOldest ==
    last.op = "create" =>
        /\ Cardinality(last.evicted) <= 1
        /\ \A k \in last.evicted :
            /\ k \in DOMAIN before
            /\ \A j \in DOMAIN before :
                before[k].creation_timestamp <= before[j].creation_timestamp
        /\ DOMAIN logs = ((DOMAIN before) \ last.evicted) \cup {last.tx_hash}
        /\ \A j \in (DOMAIN logs) \ {last.tx_hash} : logs[j] = before[j]
        /\ logs[last.tx_hash].creation_timestamp = last.time[1]

\* C2's case: an eviction among entries of different ages, for a new hash.
C2_Witness ==
    /\ last.op = "create"
    /\ last.evicted # {}
    /\ last.tx_hash \notin DOMAIN before
    /\ \E k \in last.evicted, j \in DOMAIN before :
        before[k].creation_timestamp < before[j].creation_timestamp

\* C3: a signature_added or tx_deployed call never lowers the status of the
\* entry it is called on (Created < Validating < Deployed).
C3_StatusNeverRegresses ==
    (last.op \in {"signature", "deployed"} /\ last.tx_hash \in DOMAIN before) =>
        /\ last.tx_hash \in DOMAIN logs
        /\ Rank(logs[last.tx_hash].status) >= Rank(before[last.tx_hash].status)

\* C4: in a journal that started empty, an entry that is not Deployed has
\* neither a deployment_timestamp nor a public_tx_hash.
C4_DeploymentFieldsNoneUntilDeployed ==
    FromEmpty =>
        \A h \in DOMAIN logs :
            logs[h].status # "Deployed" =>
                /\ logs[h].deployment_timestamp = None
                /\ logs[h].public_tx_hash = None

\* C5: signature_added on an existing entry that has no ValidatorLog for the
\* account leaves the whole map, the entry's status included, as it was.
C5_UnknownValidatorNoOp ==
    ( /\ last.op = "signature"
      /\ last.tx_hash \in DOMAIN before
      /\ \A i \in 1..Len(before[last.tx_hash].validators) :
            before[last.tx_hash].validators[i].account # last.validator )
    => logs = before

\* C6: signature_added and tx_deployed called with a hash that is not in the
\* map leave the map unchanged and signal no error.
C6_UnknownHashNoOp ==
    (last.op \in {"signature", "deployed"} /\ last.tx_hash \notin DOMAIN before) =>
        /\ logs = before
        /\ pc = "ready"

\* C6's case: tx_deployed for a hash that a non-empty map does not hold.
C6_Witness ==
    /\ last.op = "deployed"
    /\ last.tx_hash \notin DOMAIN before
    /\ before # EmptyMap

\* What tx_log returns after the run recorded in r ended on hash h.
LifecycleEntry(h, r) ==
    Some(TransactionLog(h, "Deployed", r.t0,
                        << ValidatorLog(r.v, TRUE, Some(r.t1)) >>,
                        Some(r.t2), Some(r.p)))

\* The tx_deployed call that completed a run on h has just returned.
LifecycleDone(h) ==
    /\ last.op = "deployed"
    /\ last.tx_hash = h
    /\ life[h].stage = 3

\* C7 as stated: after private_tx_created(T, <<V>>) at t0, signature_added(T, V)
\* at t1 and tx_deployed(T, P) at t2, with no other call on T in between,
\* tx_log(T) returns the Deployed entry with exactly these values.
C7_FullLifecycle ==
    \A h \in Hash : LifecycleDone(h) => TxLog(logs, h) = LifecycleEntry(h, life[h])

\* C7 as amended: the same, provided no private_tx_created call on another
\* hash evicted T in between.
C7_FullLifecycleUnlessEvicted ==
    \A h \in Hash :
        (LifecycleDone(h) /\ ~life[h].evicted) =>
            TxLog(logs, h) = LifecycleEntry(h, life[h])

\* C7's case: a run completed at three different clock readings.
C7_Witness ==
    \E h \in Hash :
        /\ LifecycleDone(h)
        /\ ~life[h].evicted
        /\ life[h].t0 < life[h].t1
        /\ life[h].t1 < life[h].t2

\* C8: tx_deployed on an entry that is already Deployed changes neither its
\* deployment_timestamp nor its public_tx_hash.
C8_DeploymentSetOnce ==
    ( /\ last.op = "deployed"
      /\ last.tx_hash \in DOMAIN before
      /\ before[last.tx_hash].status = "Deployed" )
    => /\ logs[last.tx_hash].deployment_timestamp
            = before[last.tx_hash].deployment_timestamp
       /\ logs[last.tx_hash].public_tx_hash = before[last.tx_hash].public_tx_hash

\* The snapshot the serializer holds (unchanged until the object is dropped).
Snapshot == IF logs_dir /\ file.state = "ok" THEN file.data ELSE << >>

\* The positions of the snapshot that hold an entry of hash h younger than
\* the retention window at clock reading t.
FreshAt(h, t) ==
    { i \in 1..Len(Snapshot) :
        /\ Snapshot[i].tx_hash = h
        /\ t - Snapshot[i].creation_timestamp < MAX_STORING_TIME }

SetMax(S) == CHOOSE x \in S : \A y \in S : y <= x

\* Construction has just ended after a successful read of a snapshot none of
\* whose entries is dated after the clock reading.
LoadedNotFuture ==
    /\ last.op = "new"
    /\ last.ok
    /\ \A i \in 1..Len(Snapshot) : Snapshot[i].creation_timestamp <= last.time[1]

\* C9: after construction over a snapshot whose entries are not dated in the
\* future, the map holds exactly the entries younger than MAX_STORING_TIME,
\* the last such entry of each hash, and no entry of that age or older.
C9_RetentionAtLoad ==
    LoadedNotFuture =>
        /\ pc = "ready"
        /\ DOMAIN logs \subseteq Hash
        /\ \A h \in Hash :
            LET fresh == FreshAt(h, last.time[1])
            IN  IF fresh = {} THEN h \notin DOMAIN logs
                ELSE h \in DOMAIN logs /\ logs[h] = Snapshot[SetMax(fresh)]

\* C9's case: a snapshot with an entry exactly as old as the window, and two
\* younger entries of one hash.
C9_Witness ==
    /\ LoadedNotFuture
    /\ \E i \in 1..Len(Snapshot) :
        last.time[1] - Snapshot[i].creation_timestamp = MAX_STORING_TIME
    /\ \E h \in Hash : Cardinality(FreshAt(h, last.time[1])) = 2

\* The serializer's read_logs failed at construction (the file is unchanged
\* until the object is dropped).
ReadFailed == Started /\ pc # "dropped" /\ logs_dir /\ file.state # "ok"

\* C10: when read_logs fails at construction, construction completes with an
\* empty map, the state construction over an empty snapshot gives, and the
\* journal takes calls.
C10_ReadErrorStartsEmpty ==
    ReadFailed =>
        /\ pc = "ready"
        /\ loaded = EmptyMap
        /\ (last.op = "new" => (~last.ok /\ logs = EmptyMap))

\* C10's case: a call made on a journal whose load failed changed the map.
C10_Witness ==
    /\ ReadFailed
    /\ last.op = "deployed"
    /\ logs # before

\* The entries of a map, as a set.
Values(m) == { m[k] : k \in DOMAIN m }

\* The objects torn down so far: every one constructed but a live one.
TornDown == IF pc = "ready" THEN gen - 1 ELSE gen

\* C11: tearing a Logging object down calls the serializer's flush_logs
\* exactly once, with the whole map as it is at that moment, and the teardown
\* completes whether or not that call fails.
C11_FlushOnceOnTeardown ==
    /\ Len(flushed) = TornDown
    /\ last.op = "drop" =>
        /\ pc = "dropped"
        /\ flushed[Len(flushed)] = Flush(logs, last.ok)
        /\ logs = before
        /\ (last.ok /\ logs_dir /\ logs # EmptyMap) =>
            /\ file.state = "ok"
            /\ Len(file.data) = MapLen(logs)
            /\ { file.data[i] : i \in 1..Len(file.data) } = Values(logs)

\* C11's case: a failed flush of a non-empty map that changed since the load.
C11_Witness ==
    /\ last.op = "drop"
    /\ ~last.ok
    /\ logs # EmptyMap
    /\ logs # loaded

\* A Logging object has just been constructed over the serializer a previous
\* object flushed a non-empty map to.
Reloaded == last.op = "new" /\ gen >= 2 /\ flushed[gen - 1].map # EmptyMap

\* C12 as stated: after a journal with a non-empty map is shut down, a journal
\* constructed over the same serializer holds the same entries (read in the
\* claim's favour: the serializer has a directory and the flush succeeded).
C12_RoundTrip ==
    (Reloaded /\ logs_dir /\ flushed[gen - 1].ok) =>
        (pc = "ready" /\ logs = flushed[gen - 1].map)

\* C12 as amended: when the serializer has a directory and the flush
\* succeeded, the new journal holds exactly the flushed entries that are
\* younger than MAX_STORING_TIME at the new load, field for field; and the
\* flushed file holds every entry of the map, the loaded ones that were
\* neither changed nor evicted next to those created since.
C12_RoundTripWithinWindow ==
    /\ (Reloaded /\ logs_dir /\ flushed[gen - 1].ok) =>
        /\ pc = "ready"
        /\ last.ok
        /\ \A h \in Hash :
            LET m == flushed[gen - 1].map
            IN  IF h \in DOMAIN m
                   /\ last.time[1] - m[h].creation_timestamp < MAX_STORING_TIME
                THEN h \in DOMAIN logs /\ logs[h] = m[h]
                ELSE h \notin DOMAIN logs
    /\ (last.op = "drop" /\ last.ok /\ logs_dir /\ logs # EmptyMap) =>
        \A h \in DOMAIN logs :
            /\ \E i \in 1..Len(file.data) : file.data[i] = logs[h]
            /\ (h \in DOMAIN loaded /\ logs[h] = loaded[h]) =>
                   \E i \in 1..Len(file.data) : file.data[i] = loaded[h]

\* C12's case: a reload that finds a loaded entry of the first object next to
\* one created on it.
C12_Witness ==
    /\ Reloaded /\ logs_dir /\ flushed[gen - 1].ok
    /\ MapLen(logs) = 2
    /\ \E h \in DOMAIN logs : logs[h].status = "Deployed"
    /\ \E h \in DOMAIN logs : logs[h].creation_timestamp > ClockStart

\* C13: under concurrent calls a lookup returns, for its hash, exactly what the
\* map held when the last write guard was released: never an entry midway
\* through an update (so never a deployment_timestamp without its
\* public_tx_hash), and what a writer leaves when it releases the guard is the
\* whole effect of its one call on what it found when it took the guard.
C13_LookupNeverSeesPartialUpdate ==
    /\ \A t \in Thread :
        /\ th[t].got = th[t].due
        /\ th[t].got # None =>
            (th[t].got[1].deployment_timestamp = None <=> th[t].got[1].public_tx_hash = None)
        /\ th[t].at = "cloned" => logs = stable
        /\ (th[t].at = "unlock" /\ th[t].op = "create") =>
            \E k \in Victims(stable) :
                logs = CreatedMap(stable, k, th[t].h, th[t].a, th[t].now)
        /\ (th[t].at = "unlock" /\ th[t].op = "signature") =>
            logs = SignatureAddedMap(stable, th[t].h, th[t].a, th[t].now)
        /\ (th[t].at = "unlock" /\ th[t].op = "deployed") =>
            logs = TxDeployedMap(stable, th[t].h, th[t].a, th[t].now)
    /\ lock.writer # 0 => lock.readers = {}

\* A lookup that had to wait for a writer returned the entry with the
\* validator's flag and timestamp both set.
C13_Witness ==
    \E t \in Thread :
        /\ th[t].at = "idle" /\ th[t].waited
        /\ th[t].got # None
        /\ th[t].got[1].status = "Validating"
        /\ th[t].got[1].validators[1].validated
        /\ th[t].got[1].validators[1].validation_timestamp # None

\* C14: private_tx_created on a hash the map already holds replaces the entry
\* whole: right after the call tx_log returns status Created, the clock reading
\* of this call as creation_timestamp, one unvalidated record without timestamp
\* per given account in the given order, and no deployment fields.
C14_CreateOverwrites ==
    (last.op = "create" /\ last.tx_hash \in DOMAIN before) =>
        /\ last.time # None
        /\ TxLog(logs, last.tx_hash) =
            Some([tx_hash |-> last.tx_hash,
                  status |-> "Created",
                  creation_timestamp |-> last.time[1],
                  validators |-> [i \in 1..Len(last.validators) |->
                                    [account |-> last.validators[i],
                                     validated |-> FALSE,
                                     validation_timestamp |-> None]],
                  deployment_timestamp |-> None,
                  public_tx_hash |-> None])

\* A Deployed entry with a validated validator has just been created anew.
C14_Witness ==
    /\ last.op = "create" /\ last.tx_hash \in DOMAIN before
    /\ before[last.tx_hash].status = "Deployed"
    /\ before[last.tx_hash].validators # << >>
    /\ before[last.tx_hash].validators[1].validated
    /\ before[last.tx_hash].creation_timestamp # last.time[1]

\* C15: dropping a Logging object whose map is empty leaves the log file as it
\* is: not created when missing, not rewritten when present, whether the map
\* is empty because nothing was loaded, every loaded entry was pruned, or the
\* load failed or panicked.
C15_EmptyFlushKeepsFile ==
    [][(pc' \in {"dropped", "panicked"} /\ pc' # pc /\ logs' = EmptyMap) => file' = file]_vars

\* An object whose load pruned every entry of a non-empty file has been dropped.
C15_Witness ==
    /\ last.op = "drop" /\ last.ok /\ logs = EmptyMap
    /\ logs_dir /\ file.state = "ok" /\ file.data # << >>

\* C16: signature_added for a validator that is already validated leaves that
\* validator's validation_timestamp as the first call set it.
C16_ValidationTimeSetOnce ==
    (last.op = "signature" /\ last.tx_hash \in DOMAIN before) =>
        LET i == FindValidator(before[last.tx_hash].validators, last.validator)
        IN  (i # 0 /\ before[last.tx_hash].validators[i].validated) =>
                logs[last.tx_hash].validators[i].validation_timestamp =
                    before[last.tx_hash].validators[i].validation_timestamp

\* C17: signature_added and tx_deployed on a hash leave the set of entries and
\* every other entry as they were, and in the entry of that hash the tx_hash,
\* the creation_timestamp and the accounts and order of the validators; no
\* validated flag goes from true to false.
C17_UpdateFrame ==
    last.op \in {"signature", "deployed"} =>
        /\ DOMAIN logs = DOMAIN before
        /\ \A h \in DOMAIN before :
            /\ h # last.tx_hash => logs[h] = before[h]
            /\ logs[h].tx_hash = before[h].tx_hash
            /\ logs[h].creation_timestamp = before[h].creation_timestamp
            /\ Len(logs[h].validators) = Len(before[h].validators)
            /\ \A i \in 1..Len(before[h].validators) :
                /\ logs[h].validators[i].account = before[h].validators[i].account
                /\ before[h].validators[i].validated => logs[h].validators[i].validated

\* tx_deployed has just written an entry whose validator had validated, at a
\* clock reading later than the entry's creation, next to another entry.
C17_Witness ==
    /\ last.op = "deployed" /\ last.tx_hash \in DOMAIN logs
    /\ MapLen(logs) = 2
    /\ logs[last.tx_hash] # before[last.tx_hash]
    /\ before[last.tx_hash].validators # << >>
    /\ before[last.tx_hash].validators[1].validated
    /\ last.time[1] > logs[last.tx_hash].creation_timestamp

\* The calls a step made, read off the bookkeeping every call updates.
IsCall(op) == (ops' # ops \/ gen' # gen \/ pc' # pc) /\ last'.op = op

\* The clock readings a step took, when the clock counts its readings.
Readings == clock' - clock

\* C18, the readings of each call under the counting clock: one for a
\* construction whose read_logs succeeded and none for one whose read failed,
\* one for every private_tx_created, one for a signature_added that finds the
\* entry and the validator and for a tx_deployed that finds the entry, none for
\* those that find nothing, for tx_log and for the teardown.
C18_ReadsOfStep ==
    clock_kind = "counter" =>
        /\ IsCall("new") =>
            Readings = IF Serializer_read_logs(logs_dir, file).ok THEN 1 ELSE 0
        /\ IsCall("create") => Readings = 1
        /\ IsCall("signature") =>
            Readings = IF /\ last'.tx_hash \in DOMAIN logs
                          /\ \E i \in 1..Len(logs[last'.tx_hash].validators) :
                                logs[last'.tx_hash].validators[i].account = last'.validator
                       THEN 1 ELSE 0
        /\ IsCall("deployed") =>
            Readings = IF last'.tx_hash \in DOMAIN logs THEN 1 ELSE 0
        /\ IsCall("tx_log") => Readings = 0
        /\ IsCall("drop") => Readings = 0

\* The three calls of a lifecycle were the first three calls on a Logging
\* object whose construction read the log file.
FirstThreeCalls(h) ==
    /\ gen = 1 /\ pc = "ready" /\ ops = MaxOps - 3
    /\ Serializer_read_logs(logs_dir, file).ok
    /\ LifecycleDone(h)

\* C18, the timestamps: a counting clock that stood at c when the object was
\* constructed gives the first three calls, a creation, the signature of its
\* validator and the deployment, the readings c + 1, c + 2 and c + 3.
C18_CounterTimestamps ==
    \A h \in Hash :
        (clock_kind = "counter" /\ FirstThreeCalls(h)) =>
            /\ h \in DOMAIN logs
            /\ logs[h].creation_timestamp = ClockStart + 1
            /\ logs[h].validators[1].validation_timestamp = Some(ClockStart + 2)
            /\ logs[h].deployment_timestamp = Some(ClockStart + 3)
            /\ clock = ClockStart + 4

\* C18: each call reads the clock once or not at all, as listed, and the
\* first three calls after a construction that read the log file are stamped
\* c + 1, c + 2, c + 3 by a counting clock started at c.
C18_ClockReads == [][C18_ReadsOfStep]_vars /\ []C18_CounterTimestamps

\* The first three calls on an object that loaded an entry were a lifecycle
\* under the counting clock.
C18_Witness ==
    /\ clock_kind = "counter" /\ loaded # EmptyMap
    /\ \E h \in Hash : FirstThreeCalls(h) /\ logs[h].deployment_timestamp = Some(ClockStart + 3)

\* The entries of the log file just read whose creation_timestamp lies after
\* the clock reading of the load.
FutureDated ==
    IF last.op = "new" /\ last.ok /\ last.time # None
    THEN { i \in 1..Len(file.data) : file.data[i].creation_timestamp > last.time[1] }
    ELSE {}

\* C19: when the log file holds an entry whose creation_timestamp is greater
\* than the clock reading at load, Logging::new completes and the entry is in
\* the map afterwards.
C19_FutureEntryLoaded ==
    FutureDated # {} =>
        /\ pc = "ready"
        /\ \A i \in FutureDated : file.data[i].tx_hash \in DOMAIN logs

\* C20: the map never holds more entries than the larger of MAX_JOURNAL_LEN + 1
\* and the number kept at load; private_tx_created leaves it no larger than the
\* larger of its size before and MAX_JOURNAL_LEN + 1; and right after
\* private_tx_created(h, ..) the map holds the new entry of h.
C20_SizeBoundAndPresence ==
    /\ MapLen(logs) <= SetMax({MAX_JOURNAL_LEN + 1, MapLen(loaded)})
    /\ last.op = "create" =>
        /\ MapLen(logs) <= SetMax({MAX_JOURNAL_LEN + 1, MapLen(before)})
        /\ last.tx_hash \in DOMAIN logs
        /\ logs[last.tx_hash].status = "Created"
        /\ logs[last.tx_hash].creation_timestamp = last.time[1]

\* A load kept more than MAX_JOURNAL_LEN + 1 entries and a creation then
\* evicted the oldest, which was the entry of the very hash it inserted.
C20_Witness ==
    /\ MapLen(loaded) > MAX_JOURNAL_LEN + 1
    /\ last.op = "create"
    /\ last.evicted = {last.tx_hash}
    /\ MapLen(logs) = MapLen(loaded)

====
